---- MODULE Spec2Model ----
(***************************************************************************)
(* Model of the two tools of the repository:                               *)
(*   GET_POOL/token_data_fetcher.py  (TokenDataFetcher, the metrics run)   *)
(*   GET_DECIMALS/get_decimals.py    (DecimalsFetcher, the decimals run)   *)
(*                                                                         *)
(* Texts (cell contents, captured values, hex results) are sequences of    *)
(* one-character strings, so that strip(), lower(), startswith() and       *)
(* int(s, 16) are computed and not assumed.                                *)
(***************************************************************************)
EXTENDS Integers, Sequences, FiniteSets, TLC

(***************************************************************************)
(* Bounds of the model.                                                    *)
(***************************************************************************)
NumRows == 3
MaxWorkers == 2
NumDecRows == 2
MaxFrags == 4
MaxHexDigits == 2

(***************************************************************************)
(* Texts.                                                                  *)
(***************************************************************************)
\* pandas' missing value (an absent cell); not a text.
NaN == <<"<NaN>">>
\* Python's None, the content of a column added by process_excel_file.
NoneVal == <<"<None>">>
\* The content of a metric column that the input table already had.
OldVal == <<"<old>">>
Zero == <<"0">>
DefaultMetrics == <<Zero, Zero, Zero>>

IsSpace(c) == c \in {" ", "\t", "\n"}

RECURSIVE LStrip(_)
LStrip(s) == IF s # <<>> /\ IsSpace(Head(s)) THEN LStrip(Tail(s)) ELSE s

RECURSIVE RStrip(_)
RStrip(s) ==
    IF s # <<>> /\ IsSpace(s[Len(s)]) THEN RStrip(SubSeq(s, 1, Len(s) - 1)) ELSE s

\* str.strip()
Strip(s) == RStrip(LStrip(s))

\* str(cell): a missing value prints as 'nan'
Str(cell) == IF cell = NaN THEN <<"n", "a", "n">> ELSE cell

\* pd.isna(cell)
IsNa(cell) == cell = NaN

\* Python's truth value of an Optional[str]: None and '' are false.
Falsy(v) == v = NoneVal \/ v = <<>>

\* v or "0"
OrZero(v) == IF Falsy(v) THEN Zero ELSE v

UpperLetters == <<"A", "B", "C", "D", "E", "F", "G", "H", "I", "J", "K", "L", "M",
                  "N", "O", "P", "Q", "R", "S", "T", "U", "V", "W", "X", "Y", "Z">>
LowerLetters == <<"a", "b", "c", "d", "e", "f", "g", "h", "i", "j", "k", "l", "m",
                  "n", "o", "p", "q", "r", "s", "t", "u", "v", "w", "x", "y", "z">>

LowerChar(c) ==
    IF \E i \in 1..26 : UpperLetters[i] = c
    THEN LowerLetters[CHOOSE i \in 1..26 : UpperLetters[i] = c]
    ELSE c

\* str.lower(), and the folding re.IGNORECASE does
Lower(s) == [i \in 1..Len(s) |-> LowerChar(s[i])]

\* a occurs in b
IsSubstr(a, b) ==
    \E i \in 0..(Len(b) - Len(a)) : SubSeq(b, i + 1, i + Len(a)) = a

\* re.search(a, b, re.IGNORECASE) for a pattern a without metacharacters
ISearch(a, b) == IsSubstr(Lower(a), Lower(b))

\* str.startswith
StartsWith(s, p) == Len(s) >= Len(p) /\ SubSeq(s, 1, Len(p)) = p

HexDigits == <<"0", "1", "2", "3", "4", "5", "6", "7", "8", "9",
               "a", "b", "c", "d", "e", "f">>

IsHexDigit(c) == \E i \in 1..16 : HexDigits[i] = LowerChar(c)

HexVal(c) == (CHOOSE i \in 1..16 : HexDigits[i] = LowerChar(c)) - 1

RECURSIVE HexNumber(_)
HexNumber(s) ==
    IF s = <<>> THEN 0
    ELSE 16 * HexNumber(SubSeq(s, 1, Len(s) - 1)) + HexVal(s[Len(s)])

\* int(s, 16) raises ValueError (for texts without sign, blank or underscore:
\* an optional 0x, then one hex digit or more)
IntBase16Raises(s) ==
    LET t == IF StartsWith(Lower(s), <<"0", "x">>) THEN SubSeq(s, 3, Len(s)) ELSE s
    IN  t = <<>> \/ \E i \in 1..Len(t) : ~IsHexDigit(t[i])

\* int(s, 16)
IntBase16(s) ==
    LET t == IF StartsWith(Lower(s), <<"0", "x">>) THEN SubSeq(s, 3, Len(s)) ELSE s
    IN  HexNumber(t)

\* str.lstrip('0')
RECURSIVE LStripZeros(_)
LStripZeros(s) == IF s # <<>> /\ Head(s) = "0" THEN LStripZeros(Tail(s)) ELSE s

(***************************************************************************)
(* The extraction pipeline (parse_html_data and its strategies).           *)
(*                                                                         *)
(* A raw body is a sequence of HTML fragments.  Every fragment begins with *)
(* '<' and ends with '>', so what a regular expression of the code finds   *)
(* inside a fragment does not depend on its neighbours:                    *)
(*   marker  the structural marker of extract_all_values_by_pattern,       *)
(*           </svg></span></div><dd class="static-box-value"><span         *)
(*           class="sc-65e7f566-0 bxaIIt base-text"><span>TEXT</span>      *)
(*           </span>                                                       *)
(*   label   <dt>NAME</dt>                                                 *)
(*   attr    <span title="NAME">TEXT</span>                                *)
(*   cls     <div class="NAME">TEXT</div>                                  *)
(*   data    <div data-key="NAME">TEXT</div>                               *)
(*   script  <script>"NAME":"TEXT"</script>                                *)
(* TEXT is never empty and holds no '<' or '>'.                            *)
(***************************************************************************)
Frag(k, name, text) == [k |-> k, name |-> name, text |-> text]

IsMarker(f) == f.k = "marker"

\* re.findall(pattern, html_content): the captured texts, in document order
MarkerTexts(body) ==
    LET idx == {i \in 1..Len(body) : IsMarker(body[i])}
        RECURSIVE Collect(_)
        Collect(i) ==
            IF i > Len(body) THEN <<>>
            ELSE IF i \in idx THEN <<body[i].text>> \o Collect(i + 1)
            ELSE Collect(i + 1)
    IN  Collect(1)

\* extract_all_values_by_pattern
ExtractAllValuesByPattern(body) ==
    LET matches == MarkerTexts(body)
    IN  IF Len(matches) = 3
        THEN <<Strip(matches[1]), Strip(matches[2]), Strip(matches[3])>>
        ELSE DefaultMetrics

\* The label occurs in the fragment's source text (re.IGNORECASE).
HasLabel(f, label) ==
    \/ f.k # "marker" /\ ISearch(label, f.name)
    \/ ISearch(label, f.text)

\* label_pattern = label .*? marker (re.IGNORECASE | re.DOTALL): the leftmost
\* occurrence of the label that a marker follows, then the nearest marker.
LabelPatternMatch(body, label) ==
    LET occ == {i \in 1..Len(body) : HasLabel(body[i], label)}
        first == CHOOSE i \in occ : \A j \in occ : i <= j
        after == {j \in 1..Len(body) : IsMarker(body[j]) /\ j > first}
    IN  IF occ = {} \/ after = {} THEN NoneVal
        ELSE Strip(body[CHOOSE j \in after : \A m \in after : j <= m].text)

\* backup_patterns[0]: label [^>]* > ([^<]+) <   -- the label inside a tag whose
\* text follows its closing '>'
BackupHit1(f, label) == f.k \in {"attr", "cls", "data"} /\ ISearch(label, f.name)

\* backup_patterns[1]: "label" [^>]* > ([^<]+) <   -- the label as a whole
\* quoted attribute value
BackupHit2(f, label) ==
    f.k \in {"attr", "cls", "data"} /\ Lower(f.name) = Lower(label)

\* backup_patterns[2]: class="[^"]*label.lower()[^"]*" [^>]* > ([^<]+) <
BackupHit3(f, label) == f.k = "cls" /\ ISearch(label, f.name)

\* backup_patterns[n - 1] hits the fragment
BackupHit(n, f, label) ==
    CASE n = 1 -> BackupHit1(f, label)
      [] n = 2 -> BackupHit2(f, label)
      [] n = 3 -> BackupHit3(f, label)

\* re.search of backup_patterns[n - 1]: the text of the leftmost fragment it
\* hits
FirstHit(body, n, label) ==
    LET hits == {i \in 1..Len(body) : BackupHit(n, body[i], label)}
    IN  IF hits = {} THEN NoneVal
        ELSE Strip(body[CHOOSE i \in hits : \A j \in hits : i <= j].text)

\* extract_value_by_pattern
ExtractValueByPattern(body, label) ==
    LET m == LabelPatternMatch(body, label)
        b1 == FirstHit(body, 1, label)
        b2 == FirstHit(body, 2, label)
        b3 == FirstHit(body, 3, label)
    IN  IF m # NoneVal THEN m
        ELSE IF b1 # NoneVal THEN b1
        ELSE IF b2 # NoneVal THEN b2
        ELSE b3

IsDigit(c) == c \in {"0", "1", "2", "3", "4", "5", "6", "7", "8", "9"}

RECURSIVE DropDigits(_)
DropDigits(s) == IF s # <<>> /\ IsDigit(Head(s)) THEN DropDigits(Tail(s)) ELSE s

\* re.sub(r'[$,\s%]', '', text)
RECURSIVE Cleaned(_)
Cleaned(s) ==
    IF s = <<>> THEN <<>>
    ELSE IF Head(s) \in {"$", ",", "%"} \/ IsSpace(Head(s)) THEN Cleaned(Tail(s))
    ELSE <<Head(s)>> \o Cleaned(Tail(s))

\* is_numeric_value: \d+\.?\d* followed by nothing, by one of K M B, or by an
\* exponent e[+-]?\d+ (re.IGNORECASE)
IsNumericValue(text) ==
    LET c == Cleaned(text)
        r1 == DropDigits(c)
        r2 == IF r1 # <<>> /\ Head(r1) = "." THEN Tail(r1) ELSE r1
        r3 == DropDigits(r2)
        ex == IF r3 # <<>> /\ LowerChar(Head(r3)) = "e" THEN Tail(r3) ELSE <<"?">>
        sg == IF ex # <<>> /\ Head(ex) \in {"+", "-"} THEN Tail(ex) ELSE ex
    IN  /\ c # <<>>
        /\ IsDigit(Head(c))
        /\ \/ r3 = <<>>
           \/ Len(r3) = 1 /\ LowerChar(r3[1]) \in {"k", "m", "b"}
           \/ sg # <<>> /\ IsDigit(Head(sg)) /\ DropDigits(sg) = <<>>

\* One keyword of extract_value_by_class: the elements whose class matches, in
\* document order, then those whose data-key matches.
RECURSIVE FirstNumeric(_, _, _, _)
FirstNumeric(body, kind, keyword, i) ==
    IF i > Len(body) THEN NoneVal
    ELSE IF /\ body[i].k = kind
            /\ ISearch(keyword, body[i].name)
            /\ Strip(body[i].text) # <<>>
            /\ IsNumericValue(Strip(body[i].text))
         THEN Strip(body[i].text)
         ELSE FirstNumeric(body, kind, keyword, i + 1)

\* extract_value_by_class
RECURSIVE ExtractValueByClass(_, _)
ExtractValueByClass(body, keywords) ==
    IF keywords = <<>> THEN NoneVal
    ELSE LET byClass == FirstNumeric(body, "cls", Head(keywords), 1)
             byData == FirstNumeric(body, "data", Head(keywords), 1)
         IN  IF byClass # NoneVal THEN byClass
             ELSE IF byData # NoneVal THEN byData
             ELSE ExtractValueByClass(body, Tail(keywords))

\* The names the last four patterns of script_patterns look for
ScriptNames ==
    { <<"p", "r", "i", "c", "e">>, <<"f", "d", "v">>,
      <<"l", "i", "q", "u", "i", "d", "i", "t", "y">>,
      <<"v", "o", "l", "u", "m", "e", "2", "4", "h">> }

\* lines 287-292: re.findall finds a match of one of script_patterns
ScriptPatternMatches(body) ==
    \E i \in 1..Len(body) :
        body[i].k = "script" /\ Lower(body[i].name) \in ScriptNames

\* extract_from_script_data taking fdv from the first match of the "fdv"
\* pattern
ExtractFromScriptDataParsed(body) ==
    LET hits == {i \in 1..Len(body) :
                    body[i].k = "script" /\ Lower(body[i].name) = <<"f", "d", "v">>}
        fdv == IF hits = {} THEN NoneVal
               ELSE body[CHOOSE i \in hits : \A j \in hits : i <= j].text
        liquidity == NoneVal
        volume_24h == NoneVal
    IN  <<OrZero(fdv), OrZero(liquidity), OrZero(volume_24h)>>

\* extract_from_script_data: fdv, liquidity and volume_24h are never assigned
ExtractFromScriptData(body) ==
    LET fdv == NoneVal
        liquidity == NoneVal
        volume_24h == NoneVal
    IN  <<OrZero(fdv), OrZero(liquidity), OrZero(volume_24h)>>

LabelFDV == <<"F", "D", "V">>
LabelLiq == <<"l", "i", "q">>
LabelVol == <<"2", "4", "h", " ", "V", "O", "L">>

KeywordsFDV == << <<"f", "d", "v">>,
                  <<"m", "a", "r", "k", "e", "t", "-", "c", "a", "p">>,
                  <<"f", "u", "l", "l", "y", "-", "d", "i", "l", "u", "t", "e", "d">> >>
KeywordsLiq == << <<"l", "i", "q", "u", "i", "d", "i", "t", "y">>, <<"l", "i", "q">> >>
KeywordsVol == << <<"v", "o", "l", "u", "m", "e">>,
                  <<"2", "4", "h", "-", "v", "o", "l", "u", "m", "e">>,
                  <<"v", "o", "l">> >>

\* The gate of parse_html_data (line 132): the other strategies are tried
\* when the first one returned "0", "0", "0".
FallsThrough(t) == t[1] = Zero /\ t[2] = Zero /\ t[3] = Zero

\* Method 2 of parse_html_data
Strategy2(body) ==
    <<ExtractValueByPattern(body, LabelFDV),
      ExtractValueByPattern(body, LabelLiq),
      ExtractValueByPattern(body, LabelVol)>>

\* Method 3: only for the values method 2 left empty
Strategy3(body, t) ==
    <<IF Falsy(t[1]) THEN ExtractValueByClass(body, KeywordsFDV) ELSE t[1],
      IF Falsy(t[2]) THEN ExtractValueByClass(body, KeywordsLiq) ELSE t[2],
      IF Falsy(t[3]) THEN ExtractValueByClass(body, KeywordsVol) ELSE t[3]>>

\* Method 4 run when not all([fdv, liquidity, volume_24h])
RunsStrategy4IfAnyMissing(t) == Falsy(t[1]) \/ Falsy(t[2]) \/ Falsy(t[3])

\* Method 4 runs when not any([fdv, liquidity, volume_24h])
RunsStrategy4(t) == Falsy(t[1]) /\ Falsy(t[2]) /\ Falsy(t[3])

\* lines 147-148: method 4 replaces the three values when none is set
AfterStrategy3(body, s3) ==
    IF RunsStrategy4(s3) THEN ExtractFromScriptData(body) ELSE s3

\* lines 132-148: methods 2 to 4 when method 1 returned "0" three times
AfterStrategy1(body, s1) ==
    IF FallsThrough(s1)
    THEN AfterStrategy3(body, Strategy3(body, Strategy2(body)))
    ELSE s1

\* line 150: fdv or "0", liquidity or "0", volume_24h or "0"
OrZeroTriple(t) == <<OrZero(t[1]), OrZero(t[2]), OrZero(t[3])>>

\* parse_html_data
ParseHtmlData(body) ==
    OrZeroTriple(AfterStrategy1(body, ExtractAllValuesByPattern(body)))

(***************************************************************************)
(* The metrics run (TokenDataFetcher.process_excel_file): state.           *)
(* Rows are numbered 1..NumRows here, 0..N-1 in the code.                  *)
(***************************************************************************)
VARIABLES
    tool,       \* which entry point runs: "pool", "decimals" or "parse"
    phase,      \* where the entry point is
    failure,    \* the statement whose exception ended the run, or "none"
    ncols,      \* number of columns of the input table
    strict,     \* metric fields whose column rejects a string value
    rows,       \* the input table: rows[i] = [net, addr]
    state,      \* state[i]: where task i is
    worker,     \* worker[w]: the task worker w is running, 0 when idle
    outcome,    \* outcome[i]: what the request of task i ended in
    result,     \* result[i]: the tuple process_single_row returned
    requests,   \* requests[i]: HTTP requests issued for task i
    table,      \* table[i]: the three metric cells of row i
    lock,       \* self.lock is held
    coll,       \* the collecting loop (as_completed) of process_excel_file
    fieldWrites,\* fieldWrites[i]: assignments made to metric cells of row i
    overtaken,  \* a future was yielded before the future of an earlier row
    made,       \* number of sessions create_session has made
    used,       \* used[i]: the session the request of task i went through
    dpos,       \* decimals run: the row the loop of process_excel is at
    dwait,      \* decimals run: the request of row dpos is in flight
    dec,        \* decimals run: the decimals column
    rpc,        \* decimals run: the last eth_call: its row and what it ended in
    pbody,      \* extraction: the raw body parse_html_data is called on
    ppc,        \* extraction: the next step of parse_html_data
    pvals,      \* extraction: fdv, liquidity, volume_24h
    pran,       \* extraction: the strategies called so far, in order
    pout,       \* extraction: the returned triple
    sphase,     \* single-thread run: where process_excel_file_single_thread is
    sfailure,   \* single-thread run: the statement whose exception ended it
    spos,       \* single-thread run: the row the loop is at
    stable,     \* single-thread run: the three metric cells of every row
    srequests,  \* single-thread run: HTTP requests issued for every row
    soutcome    \* single-thread run: what the request of every row ended in

poolVars == <<ncols, strict, state, worker, outcome, result, table, lock, coll,
              fieldWrites, overtaken, made, used>>
decVars == <<dpos, dwait, dec, rpc>>
parseVars == <<pbody, ppc, pvals, pran, pout>>
singleVars == <<sphase, sfailure, spos, stable, srequests, soutcome>>

vars == <<tool, phase, failure, rows, requests, poolVars, decVars, parseVars, singleVars>>

Rows == 1..NumRows
Workers == 1..MaxWorkers
\* The metric fields: 1 is FDV, 2 is Liquidity, 3 is 24h Volume; field f is
\* column f + 2 of the table.
Fields == 1..3

Bsc == <<"b", "s", "c">>
Foo == <<"f", "o", "o">>
Addr == <<"0", "x", "a">>

\* The rows an input table of the metrics run is made of.
PoolRowSet ==
    { [net |-> Foo, addr |-> Addr],
      [net |-> NaN, addr |-> Addr],
      [net |-> Bsc, addr |-> <<" ">>] }

\* A page of the site, with the marker three times.
PageA ==
    << Frag("marker", <<>>, <<"$", "1", "M">>),
       Frag("marker", <<>>, <<"$", "5", "K">>),
       Frag("marker", <<>>, <<"$", "4", "K">>) >>
PoolBodies == {PageA}

NoOutcome == [kind |-> "none", body |-> <<>>]
NoResult == <<>>
NoRpc == [row |-> 0, kind |-> "none", value |-> <<>>]
IdleColl == [pc |-> "idle", idx |-> 0, ridx |-> 0, vals |-> <<>>, field |-> 0,
             handler |-> FALSE]

\* line 341: the row is incomplete
IsBlankRow(r) ==
    \/ IsNa(r.net)
    \/ IsNa(r.addr)
    \/ Strip(Str(r.net)) = <<>>
    \/ Strip(Str(r.addr)) = <<>>

\* process_single_row returning the position of the next row as its index
ResultTupleNextRow(i, t) == <<(i % NumRows) + 1, t[1], t[2], t[3]>>

\* The tuple process_single_row returns for task i
ResultTuple(i, t) == <<i, t[1], t[2], t[3]>>

\* A metric column the input table already had keeps its content; one that
\* process_excel_file adds (line 374) holds None.
InitCell(f) == IF f + 2 <= ncols THEN OldVal ELSE NoneVal

\* The input tables: the two columns and two more (one is added), the two
\* columns and four more.
ColumnCounts == {4, 6}

InitPool ==
    /\ tool = "pool"
    /\ phase = "start"
    /\ failure = "none"
    /\ ncols \in ColumnCounts
    /\ strict \in {S \in SUBSET {f \in Fields : f + 2 <= ncols /\ ncols <= 5} :
                      Cardinality(S) <= 1}
    /\ rows \in [Rows -> PoolRowSet]
    /\ state = [i \in Rows |-> "None"]
    /\ worker = [w \in Workers |-> 0]
    /\ outcome = [i \in Rows |-> NoOutcome]
    /\ result = [i \in Rows |-> NoResult]
    /\ requests = [i \in Rows |-> 0]
    /\ table = [i \in Rows |-> <<NoneVal, NoneVal, NoneVal>>]
    /\ lock = FALSE
    /\ coll = IdleColl
    /\ fieldWrites = [i \in Rows |-> 0]
    /\ overtaken = FALSE /\ made = 0 /\ used = <<>>
    /\ dpos = 0 /\ dwait = FALSE /\ dec = <<>> /\ rpc = NoRpc
    /\ pbody = <<>> /\ ppc = "off" /\ pvals = <<>> /\ pran = <<>> /\ pout = <<>>
    /\ sphase = "start" /\ sfailure = "none" /\ spos = 0
    /\ stable = [i \in Rows |-> <<NoneVal, NoneVal, NoneVal>>]
    /\ srequests = [i \in Rows |-> 0]
    /\ soutcome = [i \in Rows |-> NoOutcome]

\* load_excel_data succeeds
LoadOk ==
    /\ tool = "pool" /\ phase = "start"
    /\ phase' = "loaded"
    /\ UNCHANGED <<tool, failure, ncols, strict, rows, state, worker, outcome,
                   result, requests, table, lock, coll, fieldWrites>>
    /\ UNCHANGED <<overtaken, made, used, decVars, parseVars, singleVars>>

\* load_excel_data raises: the table cannot be opened
LoadFail ==
    /\ tool = "pool" /\ phase = "start"
    /\ phase' = "failed"
    /\ failure' = "open"
    /\ UNCHANGED <<tool, ncols, strict, rows, state, worker, outcome, result,
                   requests, table, lock, coll, fieldWrites>>
    /\ UNCHANGED <<overtaken, made, used, decVars, parseVars, singleVars>>

\* lines 373-391: pad to five columns, name the columns, build the task list,
\* submit every task.  Naming five columns raises when the table has more.
Schedule ==
    /\ tool = "pool" /\ phase = "loaded"
    /\ IF ncols > 5
       THEN /\ phase' = "failed"
            /\ failure' = "columns"
            /\ UNCHANGED <<state, table>>
       ELSE /\ phase' = "running"
            /\ state' = [i \in Rows |-> "Queued"]
            /\ table' = [i \in Rows |-> <<InitCell(1), InitCell(2), InitCell(3)>>]
            /\ UNCHANGED failure
    /\ UNCHANGED <<tool, ncols, strict, rows, worker, outcome, result, requests,
                   lock, coll, fieldWrites>>
    /\ UNCHANGED <<overtaken, made, used, decVars, parseVars, singleVars>>

\* The executor's threads run while the with block is open, also while it
\* is being left by an exception (shutdown(wait=True)).
PoolOpen == tool = "pool" /\ phase \in {"running", "shutdown"}

\* self.session, the session made by the constructor; create_session numbers
\* the sessions it makes from 1.
SelfSession == 0

\* fetch_token_data sending every request through the object's own session
FetchSessionOfObject(passed) == SelfSession

\* fetch_token_data, lines 95-100: the request goes through the session it
\* is passed (process_single_row always passes one, line 351)
FetchSession(passed) == passed

\* A thread is at hand for every submitted task, whatever the pool's size
IdleWorkerUnbounded(w) == TRUE

\* Thread w of the executor's max_workers threads runs no task
IdleWorker(w) == worker[w] = 0

\* An idle worker takes the oldest queued task and runs process_single_row
\* up to its request: it makes a session (line 339), then the incomplete row
\* returns at once (line 343).
StartTask(w, i) ==
    /\ PoolOpen
    /\ IdleWorker(w)
    /\ state[i] = "Queued"
    /\ \A j \in Rows : j < i => state[j] # "Queued"
    /\ IF IsBlankRow(rows[i])
       THEN /\ state' = [state EXCEPT ![i] = "Returned"]
            /\ result' = [result EXCEPT ![i] = ResultTuple(i, DefaultMetrics)]
            /\ UNCHANGED <<worker, requests, used>>
       ELSE /\ state' = [state EXCEPT ![i] = "Fetching"]
            /\ worker' = [worker EXCEPT ![w] = i]
            /\ requests' = [requests EXCEPT ![i] = @ + 1]
            /\ used' = [j \in DOMAIN used \cup {i} |->
                           IF j = i THEN FetchSession(made + 1) ELSE used[j]]
            /\ UNCHANGED result
    /\ UNCHANGED <<tool, phase, failure, ncols, strict, rows, outcome, table,
                   lock, coll, fieldWrites>>
    /\ made' = made + 1
    /\ UNCHANGED <<overtaken, decVars, parseVars, singleVars>>

\* fetch_token_data, line 102: the response has status 200
Respond200(i, b) ==
    /\ PoolOpen
    /\ state[i] = "Fetching"
    /\ state' = [state EXCEPT ![i] = "Extracting"]
    /\ outcome' = [outcome EXCEPT ![i] = [kind |-> "ok", body |-> b]]
    /\ UNCHANGED <<tool, phase, failure, ncols, strict, rows, worker, result,
                   requests, table, lock, coll, fieldWrites>>
    /\ UNCHANGED <<overtaken, made, used, decVars, parseVars, singleVars>>

\* fetch_token_data, lines 104-109: status 404, or any other status
RespondStatus(i, s) ==
    /\ PoolOpen
    /\ state[i] = "Fetching"
    /\ s # 200
    /\ state' = [state EXCEPT ![i] = "Pacing"]
    /\ outcome' = [outcome EXCEPT ![i] = [kind |-> "failure", body |-> <<>>]]
    /\ result' = [result EXCEPT ![i] = ResultTuple(i, DefaultMetrics)]
    /\ UNCHANGED <<tool, phase, failure, ncols, strict, rows, worker, requests,
                   table, lock, coll, fieldWrites>>
    /\ UNCHANGED <<overtaken, made, used, decVars, parseVars, singleVars>>

\* A request that raised puts its task back in the queue (a retry)
RequestFailsRetry(i) ==
    /\ PoolOpen
    /\ state[i] = "Fetching"
    /\ state' = [state EXCEPT ![i] = "Queued"]
    /\ outcome' = [outcome EXCEPT ![i] = [kind |-> "failure", body |-> <<>>]]
    /\ worker' = [w \in Workers |-> IF worker[w] = i THEN 0 ELSE worker[w]]
    /\ UNCHANGED <<tool, phase, failure, ncols, strict, rows, result, requests,
                   table, lock, coll, fieldWrites>>
    /\ UNCHANGED <<overtaken, made, used, decVars, parseVars, singleVars>>

\* fetch_token_data, lines 111-113: session.get raises a RequestException
\* (timeout, connection error)
RequestFails(i) ==
    /\ PoolOpen
    /\ state[i] = "Fetching"
    /\ state' = [state EXCEPT ![i] = "Pacing"]
    /\ outcome' = [outcome EXCEPT ![i] = [kind |-> "failure", body |-> <<>>]]
    /\ result' = [result EXCEPT ![i] = ResultTuple(i, DefaultMetrics)]
    /\ UNCHANGED <<tool, phase, failure, ncols, strict, rows, worker, requests,
                   table, lock, coll, fieldWrites>>
    /\ UNCHANGED <<overtaken, made, used, decVars, parseVars, singleVars>>

\* process_single_row, lines 360-362: any other exception of the fetch is
\* caught and the task returns its default without the delay
FetchRaises(i) ==
    /\ PoolOpen
    /\ state[i] = "Fetching"
    /\ state' = [state EXCEPT ![i] = "Returned"]
    /\ outcome' = [outcome EXCEPT ![i] = [kind |-> "exception", body |-> <<>>]]
    /\ result' = [result EXCEPT ![i] = ResultTuple(i, DefaultMetrics)]
    /\ worker' = [w \in Workers |-> IF worker[w] = i THEN 0 ELSE worker[w]]
    /\ UNCHANGED <<tool, phase, failure, ncols, strict, rows, requests, table,
                   lock, coll, fieldWrites>>
    /\ UNCHANGED <<overtaken, made, used, decVars, parseVars, singleVars>>

\* line 103: parse_html_data on the response text
Extract(i) ==
    /\ PoolOpen
    /\ state[i] = "Extracting"
    /\ state' = [state EXCEPT ![i] = "Pacing"]
    /\ result' = [result EXCEPT ![i] = ResultTuple(i, ParseHtmlData(outcome[i].body))]
    /\ UNCHANGED <<tool, phase, failure, ncols, strict, rows, worker, outcome,
                   requests, table, lock, coll, fieldWrites>>
    /\ UNCHANGED <<overtaken, made, used, decVars, parseVars, singleVars>>

\* process_single_row writing its values into the table itself before it
\* returns
ReturnWritingRow(i) ==
    /\ PoolOpen
    /\ state[i] = "Pacing"
    /\ state' = [state EXCEPT ![i] = "Returned"]
    /\ worker' = [w \in Workers |-> IF worker[w] = i THEN 0 ELSE worker[w]]
    /\ table' = [table EXCEPT ![i] = <<result[i][2], result[i][3], result[i][4]>>]
    /\ UNCHANGED <<tool, phase, failure, ncols, strict, rows, outcome, result,
                   requests, lock, coll, fieldWrites>>
    /\ UNCHANGED <<overtaken, made, used, decVars, parseVars, singleVars>>

\* lines 356-358: the delay is over and process_single_row returns
Return(i) ==
    /\ PoolOpen
    /\ state[i] = "Pacing"
    /\ state' = [state EXCEPT ![i] = "Returned"]
    /\ worker' = [w \in Workers |-> IF worker[w] = i THEN 0 ELSE worker[w]]
    /\ UNCHANGED <<tool, phase, failure, ncols, strict, rows, outcome, result,
                   requests, table, lock, coll, fieldWrites>>
    /\ UNCHANGED <<overtaken, made, used, decVars, parseVars, singleVars>>

\* The value the collecting loop assigns to field f of its row: the task's
\* value (lines 401-403), or "0" in the except branch (lines 410-412)
WriteValue(f) == IF coll.handler THEN Zero ELSE coll.vals[f]

\* The row the collecting loop assigns to: result_index (lines 401-403), or
\* future_to_index[future] in the except branch (lines 410-412)
WriteRow == IF coll.handler THEN coll.idx ELSE coll.ridx

\* df.loc[row, column] = value; a label the table does not hold adds a row
Assign(t, row, f, v) ==
    IF row \in DOMAIN t
    THEN [t EXCEPT ![row][f] = v]
    ELSE [r \in DOMAIN t \cup {row} |->
            IF r = row THEN [g \in Fields |-> IF g = f THEN v ELSE NaN] ELSE t[r]]

\* lines 394-397: as_completed yields a finished future; its result is unpacked
Collect(i) ==
    /\ tool = "pool" /\ phase = "running"
    /\ coll.pc = "idle"
    /\ state[i] = "Returned"
    /\ state' = [state EXCEPT ![i] = "Aggregating"]
    /\ coll' = [pc |-> "acquire", idx |-> i, ridx |-> result[i][1],
                vals |-> <<result[i][2], result[i][3], result[i][4]>>,
                field |-> 1, handler |-> FALSE]
    /\ UNCHANGED <<tool, phase, failure, ncols, strict, rows, worker, outcome,
                   result, requests, table, lock, fieldWrites>>
    /\ overtaken' = (overtaken \/ \E j \in Rows :
                                      j < i /\ state[j] \notin {"Aggregating", "Done"})
    /\ UNCHANGED <<made, used, decVars, parseVars, singleVars>>

\* with self.lock: (lines 400 and 409)
Acquire ==
    /\ tool = "pool" /\ phase = "running"
    /\ coll.pc = "acquire"
    /\ ~lock
    /\ lock' = TRUE
    /\ coll' = [coll EXCEPT !.pc = "write"]
    /\ UNCHANGED <<tool, phase, failure, ncols, strict, rows, state, worker,
                   outcome, result, requests, table, fieldWrites>>
    /\ UNCHANGED <<overtaken, made, used, decVars, parseVars, singleVars>>

\* One of the three assignments under the lock succeeds.
WriteField ==
    /\ tool = "pool" /\ phase = "running"
    /\ coll.pc = "write"
    /\ coll.field \notin strict
    /\ table' = Assign(table, WriteRow, coll.field, WriteValue(coll.field))
    /\ fieldWrites' = [r \in DOMAIN fieldWrites \cup {WriteRow} |->
                         IF r = WriteRow
                         THEN (IF r \in DOMAIN fieldWrites THEN fieldWrites[r] ELSE 0) + 1
                         ELSE fieldWrites[r]]
    /\ coll' = IF coll.field < 3
               THEN [coll EXCEPT !.field = @ + 1]
               ELSE [coll EXCEPT !.pc = "release"]
    /\ UNCHANGED <<tool, phase, failure, ncols, strict, rows, state, worker,
                   outcome, result, requests, lock>>
    /\ UNCHANGED <<overtaken, made, used, decVars, parseVars, singleVars>>

\* The with block is left after the third assignment: the lock is released
\* and the task is done.
Release ==
    /\ tool = "pool" /\ phase = "running"
    /\ coll.pc = "release"
    /\ lock' = FALSE
    /\ state' = [state EXCEPT ![coll.idx] = "Done"]
    /\ coll' = IdleColl
    /\ UNCHANGED <<tool, phase, failure, ncols, strict, rows, worker, outcome,
                   result, requests, table, fieldWrites>>
    /\ UNCHANGED <<overtaken, made, used, decVars, parseVars, singleVars>>

\* An assignment raises and the lock stays held (acquire() without a
\* with block or a finally)
WriteRaisesLockKept ==
    /\ tool = "pool" /\ phase = "running"
    /\ coll.pc = "write"
    /\ coll.field \in strict
    /\ IF ~coll.handler
       THEN /\ coll' = [coll EXCEPT !.pc = "acquire", !.field = 1, !.handler = TRUE]
            /\ UNCHANGED <<phase, failure>>
       ELSE /\ coll' = [coll EXCEPT !.pc = "raised"]
            /\ phase' = "shutdown"
            /\ failure' = "write"
    /\ UNCHANGED <<tool, ncols, strict, rows, state, worker, outcome, result,
                   requests, table, fieldWrites, lock>>
    /\ UNCHANGED <<overtaken, made, used, decVars, parseVars, singleVars>>

\* An assignment raises (the column does not take a string).  The with block
\* releases the lock on the way out.  From the try branch the except branch
\* (line 407) takes over; from the except branch the exception leaves the
\* loop and the executor's with block.
WriteRaises ==
    /\ tool = "pool" /\ phase = "running"
    /\ coll.pc = "write"
    /\ coll.field \in strict
    /\ lock' = FALSE
    /\ IF ~coll.handler
       THEN /\ coll' = [coll EXCEPT !.pc = "acquire", !.field = 1, !.handler = TRUE]
            /\ UNCHANGED <<phase, failure>>
       ELSE /\ coll' = [coll EXCEPT !.pc = "raised"]
            /\ phase' = "shutdown"
            /\ failure' = "write"
    /\ UNCHANGED <<tool, ncols, strict, rows, state, worker, outcome, result,
                   requests, table, fieldWrites>>
    /\ UNCHANGED <<overtaken, made, used, decVars, parseVars, singleVars>>

NoWorkLeft ==
    \A i \in Rows : state[i] \notin {"Queued", "Fetching", "Extracting", "Pacing"}

\* The executor's with block is left by the exception once its threads have
\* finished every submitted task; line 425 raises it again.
ShutdownDone ==
    /\ tool = "pool" /\ phase = "shutdown"
    /\ NoWorkLeft
    /\ phase' = "failed"
    /\ UNCHANGED <<tool, failure, ncols, strict, rows, state, worker, outcome,
                   result, requests, table, lock, coll, fieldWrites>>
    /\ UNCHANGED <<overtaken, made, used, decVars, parseVars, singleVars>>

\* Every future has been yielded: the loop and the with block end.
CloseExecutor ==
    /\ tool = "pool" /\ phase = "running"
    /\ coll.pc = "idle"
    /\ \A i \in Rows : state[i] = "Done"
    /\ phase' = "saving"
    /\ UNCHANGED <<tool, failure, ncols, strict, rows, state, worker, outcome,
                   result, requests, table, lock, coll, fieldWrites>>
    /\ UNCHANGED <<overtaken, made, used, decVars, parseVars, singleVars>>

\* line 416: the _result file is written
SaveResult ==
    /\ tool = "pool" /\ phase = "saving"
    /\ phase' = "saved_result"
    /\ UNCHANGED <<tool, failure, ncols, strict, rows, state, worker, outcome,
                   result, requests, table, lock, coll, fieldWrites>>
    /\ UNCHANGED <<overtaken, made, used, decVars, parseVars, singleVars>>

\* line 420: the original file is written
SaveOriginal ==
    /\ tool = "pool" /\ phase = "saved_result"
    /\ phase' = "done"
    /\ UNCHANGED <<tool, failure, ncols, strict, rows, state, worker, outcome,
                   result, requests, table, lock, coll, fieldWrites>>
    /\ UNCHANGED <<overtaken, made, used, decVars, parseVars, singleVars>>

\* to_excel raises (lines 416, 420); line 425 raises it again
SaveFails ==
    /\ tool = "pool" /\ phase \in {"saving", "saved_result"}
    /\ phase' = "failed"
    /\ failure' = "save"
    /\ UNCHANGED <<tool, ncols, strict, rows, state, worker, outcome, result,
                   requests, table, lock, coll, fieldWrites>>
    /\ UNCHANGED <<overtaken, made, used, decVars, parseVars, singleVars>>

StatusCodes == {404, 500}

NextPool ==
    \/ LoadOk
    \/ LoadFail
    \/ Schedule
    \/ \E w \in Workers, i \in Rows : StartTask(w, i)
    \/ \E i \in Rows, b \in PoolBodies : Respond200(i, b)
    \/ \E i \in Rows, s \in StatusCodes : RespondStatus(i, s)
    \/ \E i \in Rows : RequestFails(i)
    \/ \E i \in Rows : FetchRaises(i)
    \/ \E i \in Rows : Extract(i)
    \/ \E i \in Rows : Return(i)
    \/ \E i \in Rows : Collect(i)
    \/ Acquire
    \/ WriteField
    \/ Release
    \/ WriteRaises
    \/ ShutdownDone
    \/ CloseExecutor
    \/ SaveResult
    \/ SaveOriginal
    \/ SaveFails

SpecPool == InitPool /\ [][NextPool]_vars

(***************************************************************************)
(* The single-thread metrics run (process_excel_file_single_thread), run   *)
(* on the input table of the concurrent run once that run has ended, every *)
(* request ending as the concurrent run's request for the same row did.    *)
(***************************************************************************)

\* lines 445-448: both cells have gone through str(...).strip() before the
\* test, so pd.isna is false of them and a missing cell is the text 'nan'
SingleBlankRow(r) ==
    \/ Strip(Str(r.net)) = <<>>
    \/ Strip(Str(r.addr)) = <<>>

\* The three assignments of a row (lines 450-452, 461-463 or 472-474) raise
\* when a column rejects a string.
SingleWriteRaises == strict # {}

\* The row after its assignments.  Without a rejecting column the three
\* cells hold vals.  Otherwise the assignments before the rejecting one are
\* made, the except branch (line 470) makes them again with "0", and its
\* own rejected assignment leaves the loop.
SingleWritten(t, i, vals) ==
    [t EXCEPT ![i] = [f \in Fields |->
                         IF strict = {} THEN vals[f]
                         ELSE IF \A g \in strict : f < g THEN Zero
                         ELSE t[i][f]]]

\* What fetch_token_data returns for an outcome of the request (lines
\* 102-113)
SingleMetrics(o) ==
    IF o.kind = "ok" THEN ParseHtmlData(o.body) ELSE DefaultMetrics

\* The outcomes a request can end in
FetchOutcomes ==
    {[kind |-> "ok", body |-> b] : b \in PoolBodies}
        \cup {[kind |-> "failure", body |-> <<>>],
              [kind |-> "exception", body |-> <<>>]}

\* line 433: load_excel_data reads the same file as the concurrent run did
SingleLoad ==
    /\ tool = "pool" /\ phase \in {"done", "failed"}
    /\ sphase = "start"
    /\ IF failure = "open"
       THEN sphase' = "failed" /\ sfailure' = "open"
       ELSE sphase' = "loaded" /\ UNCHANGED sfailure
    /\ UNCHANGED <<spos, stable, srequests, soutcome>>
    /\ UNCHANGED <<tool, phase, failure, rows, requests, poolVars, decVars, parseVars>>

\* lines 436-440: pad to five columns and name the columns; naming five
\* columns raises when the table has more
SingleSchedule ==
    /\ tool = "pool" /\ sphase = "loaded"
    /\ IF ncols > 5
       THEN /\ sphase' = "failed"
            /\ sfailure' = "columns"
            /\ UNCHANGED <<spos, stable>>
       ELSE /\ sphase' = "row"
            /\ spos' = 1
            /\ stable' = [i \in Rows |-> <<InitCell(1), InitCell(2), InitCell(3)>>]
            /\ UNCHANGED sfailure
    /\ UNCHANGED <<srequests, soutcome>>
    /\ UNCHANGED <<tool, phase, failure, rows, requests, poolVars, decVars, parseVars>>

\* The three assignments of the row at spos and the loop of line 443 after
\* them: the next row, or lines 477-478 after the last; a rejected
\* assignment ends the run (line 487).
SingleAssign(vals) ==
    /\ stable' = SingleWritten(stable, spos, vals)
    /\ IF SingleWriteRaises
       THEN sphase' = "failed" /\ sfailure' = "write" /\ UNCHANGED spos
       ELSE IF spos < NumRows
       THEN sphase' = "row" /\ spos' = spos + 1 /\ UNCHANGED sfailure
       ELSE sphase' = "saving" /\ UNCHANGED <<spos, sfailure>>

\* lines 448-453: the incomplete row gets "0" three times, without a request
SingleSkip ==
    /\ tool = "pool" /\ sphase = "row"
    /\ SingleBlankRow(rows[spos])
    /\ SingleAssign(DefaultMetrics)
    /\ UNCHANGED <<srequests, soutcome>>
    /\ UNCHANGED <<tool, phase, failure, rows, requests, poolVars, decVars, parseVars>>

\* lines 455-458: fetch_token_data is called without a session and sends the
\* request
SingleRequest ==
    /\ tool = "pool" /\ sphase = "row"
    /\ ~SingleBlankRow(rows[spos])
    /\ sphase' = "fetching"
    /\ srequests' = [srequests EXCEPT ![spos] = @ + 1]
    /\ UNCHANGED <<sfailure, spos, stable, soutcome>>
    /\ UNCHANGED <<tool, phase, failure, rows, requests, poolVars, decVars, parseVars>>

\* fetch_token_data, lines 98-113: the request ends as the concurrent run's
\* request for the row did, in any way for a row that run sent no request
\* for
SingleRespond(o) ==
    /\ tool = "pool" /\ sphase = "fetching"
    /\ outcome[spos] # NoOutcome => o = outcome[spos]
    /\ soutcome' = [soutcome EXCEPT ![spos] = o]
    /\ sphase' = "fetched"
    /\ UNCHANGED <<sfailure, spos, stable, srequests>>
    /\ UNCHANGED <<tool, phase, failure, rows, requests, poolVars, decVars, parseVars>>

\* lines 458-468 and 470-474: the values fetch_token_data returns are
\* assigned and the loop sleeps; an exception of the fetch is caught and "0"
\* assigned
SingleWrite ==
    /\ tool = "pool" /\ sphase = "fetched"
    /\ SingleAssign(SingleMetrics(soutcome[spos]))
    /\ UNCHANGED <<srequests, soutcome>>
    /\ UNCHANGED <<tool, phase, failure, rows, requests, poolVars, decVars, parseVars>>

\* line 478: the _result file is written
SingleSaveResult ==
    /\ tool = "pool" /\ sphase = "saving"
    /\ sphase' = "saved_result"
    /\ UNCHANGED <<sfailure, spos, stable, srequests, soutcome>>
    /\ UNCHANGED <<tool, phase, failure, rows, requests, poolVars, decVars, parseVars>>

\* line 482: the original file is written
SingleSaveOriginal ==
    /\ tool = "pool" /\ sphase = "saved_result"
    /\ sphase' = "done"
    /\ UNCHANGED <<sfailure, spos, stable, srequests, soutcome>>
    /\ UNCHANGED <<tool, phase, failure, rows, requests, poolVars, decVars, parseVars>>

\* to_excel raises (lines 478, 482); line 487 raises it again
SingleSaveFails ==
    /\ tool = "pool" /\ sphase \in {"saving", "saved_result"}
    /\ sphase' = "failed"
    /\ sfailure' = "save"
    /\ UNCHANGED <<spos, stable, srequests, soutcome>>
    /\ UNCHANGED <<tool, phase, failure, rows, requests, poolVars, decVars, parseVars>>

NextSingle ==
    \/ SingleLoad
    \/ SingleSchedule
    \/ SingleSkip
    \/ SingleRequest
    \/ \E o \in FetchOutcomes : SingleRespond(o)
    \/ SingleWrite
    \/ SingleSaveResult
    \/ SingleSaveOriginal
    \/ SingleSaveFails

\* The concurrent run, then the single-thread run on the same input.
SpecBoth == InitPool /\ [][NextPool \/ NextSingle]_vars

(***************************************************************************)
(* The decimals run (DecimalsFetcher.process_excel).                       *)
(***************************************************************************)
DecRows == 1..NumDecRows

DefaultDecimals == 18

\* A result of the JSON response that is not a string (a number).
JsonNumber == <<"<number>">>

\* self.rpc_endpoints: the networks that have an endpoint
RpcNetworks ==
    { <<"e", "t", "h", "e", "r", "e", "u", "m">>,
      <<"b", "s", "c">>,
      <<"p", "o", "l", "y", "g", "o", "n">>,
      <<"a", "r", "b", "i", "t", "r", "u", "m">>,
      <<"a", "v", "a", "l", "a", "n", "c", "h", "e">>,
      <<"f", "a", "n", "t", "o", "m">>,
      <<"o", "p", "t", "i", "m", "i", "s", "m">>,
      <<"b", "a", "s", "e">> }

\* get_rpc_endpoint looking the name up as it is written
HasRpcEndpointAsWritten(network) == network \in RpcNetworks

\* get_rpc_endpoint returns an endpoint
HasRpcEndpoint(network) == Lower(network) \in RpcNetworks

\* hex_to_decimal
HexToDecimal(hex_result) ==
    IF hex_result = JsonNumber THEN DefaultDecimals
    ELSE LET h1 == IF StartsWith(hex_result, <<"0", "x">>)
                   THEN SubSeq(hex_result, 3, Len(hex_result))
                   ELSE hex_result
             h2 == LStripZeros(h1)
             h3 == IF h2 = <<>> THEN <<"0">> ELSE h2
         IN  IF IntBase16Raises(h3) THEN DefaultDecimals ELSE IntBase16(h3)

\* call_contract_method: the result string, or None
CallResult(o) ==
    IF o.kind = "result" /\ o.value # <<>> THEN o.value ELSE NoneVal

\* get_token_decimals taking a call that failed for a token without decimals
DecimalsOfZeroDefault(o) ==
    LET r == CallResult(o)
    IN  IF r # NoneVal THEN HexToDecimal(r) ELSE 0

\* get_token_decimals, lines 120-128, for what the eth_call ended in
DecimalsOf(o) ==
    LET r == CallResult(o)
    IN  IF r # NoneVal THEN HexToDecimal(r) ELSE DefaultDecimals

\* line 154: the row is taken as incomplete
IsNanRow(network, addr) ==
    network = <<"n", "a", "n">> \/ addr = <<"n", "a", "n">>

RECURSIVE TextsUpTo(_, _)
TextsUpTo(alphabet, n) ==
    IF n = 0 THEN {<<>>}
    ELSE LET shorter == TextsUpTo(alphabet, n - 1)
         IN  shorter \cup {Append(t, c) : t \in shorter, c \in alphabet}

\* The result strings a node answers with: an optional 0x and up to
\* MaxHexDigits characters, one of them not a hex digit.
HexTexts ==
    {p \o d : p \in {<<>>, <<"0", "x">>}, d \in TextsUpTo({"0", "6", "g"}, MaxHexDigits)}

\* What an eth_call ends in: an exception (timeout, connection error, a body
\* that is not JSON), a status other than 200, a JSON body without 'result',
\* or a JSON body with a result.
RpcOutcomes ==
    { [kind |-> "exception", value |-> <<>>],
      [kind |-> "status", value |-> <<>>],
      [kind |-> "noresult", value |-> <<>>] }
    \cup {[kind |-> "result", value |-> v] : v \in HexTexts \cup {JsonNumber}}

\* The rows an input table of the decimals run is made of.
DecRowSet ==
    { [net |-> <<"B", "s", "C">>, addr |-> <<"a">>],
      [net |-> Foo, addr |-> Addr],
      [net |-> NaN, addr |-> Addr],
      [net |-> Bsc, addr |-> NaN],
      [net |-> Bsc, addr |-> <<" ">>],
      [net |-> <<" ">>, addr |-> Addr] }

InitDec ==
    /\ tool = "decimals"
    /\ phase = "start"
    /\ failure = "none"
    /\ rows \in [DecRows -> DecRowSet]
    /\ requests = [i \in DecRows |-> 0]
    /\ dpos = 0 /\ dwait = FALSE /\ dec = <<>> /\ rpc = NoRpc
    /\ pbody = <<>> /\ ppc = "off" /\ pvals = <<>> /\ pran = <<>> /\ pout = <<>>
    /\ ncols = 2 /\ strict = {}
    /\ state = <<>> /\ worker = <<>> /\ outcome = <<>> /\ result = <<>>
    /\ table = <<>> /\ lock = FALSE /\ coll = IdleColl /\ fieldWrites = <<>>
    /\ overtaken = FALSE /\ made = 0 /\ used = <<>>
    /\ sphase = "off" /\ sfailure = "none" /\ spos = 0
    /\ stable = <<>> /\ srequests = <<>> /\ soutcome = <<>>

\* lines 138-146: the table is read and the decimals column added
DecOpen ==
    /\ tool = "decimals" /\ phase = "start"
    /\ phase' = "loop"
    /\ dpos' = 1
    /\ dec' = [i \in DecRows |-> NoneVal]
    /\ UNCHANGED <<tool, failure, rows, requests, dwait, rpc, poolVars, parseVars, singleVars>>

\* line 138 raises; process_excel returns None (line 201)
DecOpenFails ==
    /\ tool = "decimals" /\ phase = "start"
    /\ phase' = "failed"
    /\ failure' = "open"
    /\ UNCHANGED <<tool, rows, requests, decVars, poolVars, parseVars, singleVars>>

\* lines 149-165 up to the request: an incomplete row and a network without
\* endpoint get the default at once, any other row sends its eth_call
DecRow ==
    /\ tool = "decimals" /\ phase = "loop"
    /\ dpos \in DecRows
    /\ ~dwait
    /\ LET network == Strip(Str(rows[dpos].net))
           contract_address == Strip(Str(rows[dpos].addr))
       IN  IF IsNanRow(network, contract_address) \/ ~HasRpcEndpoint(network)
           THEN /\ dec' = [dec EXCEPT ![dpos] = DefaultDecimals]
                /\ dpos' = dpos + 1
                /\ UNCHANGED <<dwait, requests>>
           ELSE /\ dwait' = TRUE
                /\ requests' = [requests EXCEPT ![dpos] = @ + 1]
                /\ UNCHANGED <<dec, dpos>>
    /\ UNCHANGED <<tool, phase, failure, rows, rpc, poolVars, parseVars, singleVars>>

\* lines 67-82 and 122-128, 165: the eth_call ends and the row is written
DecRespond(o) ==
    /\ tool = "decimals" /\ phase = "loop"
    /\ dwait
    /\ dwait' = FALSE
    /\ rpc' = [row |-> dpos, kind |-> o.kind, value |-> o.value]
    /\ dec' = [dec EXCEPT ![dpos] = DecimalsOf(o)]
    /\ dpos' = dpos + 1
    /\ UNCHANGED <<tool, phase, failure, rows, requests, poolVars, parseVars, singleVars>>

\* lines 177-187: the backup and the result file are written
DecSave ==
    /\ tool = "decimals" /\ phase = "loop"
    /\ dpos > NumDecRows
    /\ phase' = "done"
    /\ UNCHANGED <<tool, failure, rows, requests, decVars, poolVars, parseVars, singleVars>>

\* lines 178-186 raise; process_excel returns None (line 201)
DecSaveFails ==
    /\ tool = "decimals" /\ phase = "loop"
    /\ dpos > NumDecRows
    /\ phase' = "failed"
    /\ failure' = "save"
    /\ UNCHANGED <<tool, rows, requests, decVars, poolVars, parseVars, singleVars>>

NextDec ==
    \/ DecOpen
    \/ DecOpenFails
    \/ DecRow
    \/ \E o \in RpcOutcomes : DecRespond(o)
    \/ DecSave
    \/ DecSaveFails

SpecDec == InitDec /\ [][NextDec]_vars

\* Either tool.
SpecTools == (InitPool \/ InitDec) /\ [][NextPool \/ NextDec]_vars

(***************************************************************************)
(* parse_html_data, statement by statement, on every body of up to         *)
(* MaxFrags fragments.                                                     *)
(***************************************************************************)
FragVocab ==
    { Frag("marker", <<>>, <<"0">>),
      Frag("marker", <<>>, <<"$", "5">>),
      Frag("marker", <<>>, <<" ", "7">>),
      Frag("label", LabelVol, <<>>),
      Frag("attr", LabelFDV, <<"$", "9">>),
      Frag("cls", <<"l", "i", "q", "u", "i", "d", "i", "t", "y">>, <<"3", "K">>),
      Frag("cls", <<"v", "o", "l", "u", "m", "e">>, <<"8", "M">>),
      Frag("data", <<"v", "o", "l">>, <<"n", "/", "a">>),
      Frag("script", <<"f", "d", "v">>, <<"1">>) }

ParseBodies == TextsUpTo(FragVocab, MaxFrags)

NoTriple == <<NoneVal, NoneVal, NoneVal>>

InitParse ==
    /\ tool = "parse"
    /\ pbody \in ParseBodies
    /\ ppc = "s1"
    /\ pvals = NoTriple
    /\ pran = <<>>
    /\ pout = <<>>
    /\ phase = "parse" /\ failure = "none" /\ rows = <<>> /\ requests = <<>>
    /\ dpos = 0 /\ dwait = FALSE /\ dec = <<>> /\ rpc = NoRpc
    /\ ncols = 2 /\ strict = {}
    /\ state = <<>> /\ worker = <<>> /\ outcome = <<>> /\ result = <<>>
    /\ table = <<>> /\ lock = FALSE /\ coll = IdleColl /\ fieldWrites = <<>>
    /\ overtaken = FALSE /\ made = 0 /\ used = <<>>
    /\ sphase = "off" /\ sfailure = "none" /\ spos = 0
    /\ stable = <<>> /\ srequests = <<>> /\ soutcome = <<>>

\* line 129 and the test of line 132
ParseStep1 ==
    /\ tool = "parse" /\ ppc = "s1"
    /\ pvals' = ExtractAllValuesByPattern(pbody)
    /\ pran' = Append(pran, 1)
    /\ ppc' = IF FallsThrough(pvals') THEN "s2" ELSE "ret"
    /\ UNCHANGED <<tool, phase, failure, rows, requests, poolVars, decVars, singleVars, pbody, pout>>

\* lines 134-136
ParseStep2 ==
    /\ tool = "parse" /\ ppc = "s2"
    /\ pvals' = Strategy2(pbody)
    /\ pran' = Append(pran, 2)
    /\ ppc' = "s3"
    /\ UNCHANGED <<tool, phase, failure, rows, requests, poolVars, decVars, singleVars, pbody, pout>>

\* lines 139-144 and the test of line 147; extract_value_by_class is called
\* for the values that are still empty
ParseStep3 ==
    /\ tool = "parse" /\ ppc = "s3"
    /\ pvals' = Strategy3(pbody, pvals)
    /\ pran' = IF \E f \in 1..3 : Falsy(pvals[f]) THEN Append(pran, 3) ELSE pran
    /\ ppc' = IF RunsStrategy4(pvals') THEN "s4" ELSE "ret"
    /\ UNCHANGED <<tool, phase, failure, rows, requests, poolVars, decVars, singleVars, pbody, pout>>

\* line 148
ParseStep4 ==
    /\ tool = "parse" /\ ppc = "s4"
    /\ pvals' = ExtractFromScriptData(pbody)
    /\ pran' = Append(pran, 4)
    /\ ppc' = "ret"
    /\ UNCHANGED <<tool, phase, failure, rows, requests, poolVars, decVars, singleVars, pbody, pout>>

\* line 150
ParseReturn ==
    /\ tool = "parse" /\ ppc = "ret"
    /\ pout' = <<OrZero(pvals[1]), OrZero(pvals[2]), OrZero(pvals[3])>>
    /\ ppc' = "done"
    /\ UNCHANGED <<tool, phase, failure, rows, requests, poolVars, decVars, singleVars, pbody,
                   pvals, pran>>

NextParse ==
    \/ ParseStep1
    \/ ParseStep2
    \/ ParseStep3
    \/ ParseStep4
    \/ ParseReturn

SpecParse == InitParse /\ [][NextParse]_vars

(***************************************************************************)
(* The properties.                                                         *)
(***************************************************************************)
\* The triple the task of row i produces: what its own request ended in
\* decides it, and nothing else.
TripleOfTask(i) ==
    IF outcome[i].kind = "ok"
    THEN ParseHtmlData(outcome[i].body)
    ELSE <<Zero, Zero, Zero>>

\* C1: when the concurrent metrics run has finished, the table has the N
\* rows of the input, in the input order, and row i holds the triple that the
\* task made from row i produced, in whatever order the tasks completed.
C1_RowIndexPreserved ==
    (tool = "pool" /\ phase = "done") =>
        /\ DOMAIN table = Rows
        /\ \A i \in Rows : table[i] = TripleOfTask(i)

\* A finished run in which a task was collected before the task of an earlier
\* row, and two rows hold different triples.
C1_Witness ==
    /\ tool = "pool" /\ phase = "done"
    /\ overtaken
    /\ \E i, j \in Rows : table[i] # table[j]

\* The run of process_excel_file has ended after its tasks were submitted.
RunEnded ==
    /\ tool = "pool"
    /\ phase \in {"done", "failed"}
    /\ \A i \in Rows : state[i] # "None"

\* C2: every submitted task gets exactly one three-field write to the row of
\* its index, whichever path it took: no row is written more than once, and
\* when the run has ended no row is left unwritten.
C2_ExactlyOneRowWritten ==
    /\ tool = "pool" => \A r \in DOMAIN fieldWrites : fieldWrites[r] <= 3
    /\ RunEnded => \A i \in Rows : fieldWrites[i] = 3

\* C3: whenever the lock is free, each row's three metric cells are all at
\* their initial values or all the three values of one aggregated result.
C3_NoPartialWrite ==
    (tool = "pool" /\ ~lock /\ \A i \in Rows : state[i] # "None") =>
        \A r \in DOMAIN table :
            \/ table[r] = <<InitCell(1), InitCell(2), InitCell(3)>>
            \/ table[r] = <<Zero, Zero, Zero>>
            \/ \E i \in Rows :
                  /\ result[i] # NoResult
                  /\ table[r] = <<result[i][2], result[i][3], result[i][4]>>

\* C4: for a body with the marker exactly three times, parse_html_data returns
\* the three captured texts in document order and runs strategy 1 alone, also
\* when the captured texts are "0"; strategies 2 to 4 run only when the marker
\* count is not three.
C4_ExactlyThreeMatches ==
    (tool = "parse" /\ ppc = "done") =>
        LET matches == MarkerTexts(pbody)
        IN  /\ Len(matches) = 3 =>
                 /\ pout = <<Strip(matches[1]), Strip(matches[2]), Strip(matches[3])>>
                 /\ pran = <<1>>
            /\ pran # <<1>> => Len(matches) # 3

\* C5: a request that ends in a transport failure (timeout, connection
\* error, a status other than 200) does not raise: the task goes on with
\* ("0", "0", "0") in the metrics run, the row gets 18 in the decimals run; and
\* what is written for any row is decided by that row's own request alone.
C5_DefaultOnFailure ==
    /\ tool = "pool" =>
          \A i \in Rows :
             /\ outcome[i].kind = "failure" =>
                   /\ result[i] = <<i, Zero, Zero, Zero>>
                   /\ state[i] \in {"Pacing", "Returned", "Aggregating", "Done"}
             /\ state[i] = "Done" => table[i] = TripleOfTask(i)
    /\ tool = "decimals" =>
          /\ rpc.kind \in {"exception", "status"} => dec[rpc.row] = 18
          /\ rpc.row > 0 => dec[rpc.row] = DecimalsOf(rpc)

\* A finished metrics run where the request of one task failed and the row
\* of another holds values taken from its page.
C5_Witness ==
    /\ tool = "pool" /\ phase = "done"
    /\ \E i, j \in Rows :
          /\ outcome[i].kind = "failure" /\ table[i] = <<Zero, Zero, Zero>>
          /\ outcome[j].kind = "ok" /\ table[j] # <<Zero, Zero, Zero>>

\* C6: an exception in a worker's fetch becomes (index, "0", "0", "0") for
\* the task's own index, the pool is not aborted, and every task is Done with
\* its own result written when the run ends.
C6_WorkerExceptionContained ==
    /\ tool = "pool" =>
          \A i \in Rows :
             outcome[i].kind = "exception" => result[i] = <<i, Zero, Zero, Zero>>
    /\ (RunEnded /\ \E i \in Rows : outcome[i].kind = "exception") =>
          \A j \in Rows : state[j] = "Done" /\ table[j] = TripleOfTask(j)

\* The cell is absent, empty or only whitespace.
BlankCell(c) == IsNa(c) \/ Strip(c) = <<>>

\* C7: in both tools no request is issued for a row whose network or address
\* is absent, empty or only whitespace, and the row gets the default.
C7_BlankRowNoRequest ==
    \A i \in DOMAIN requests :
        (BlankCell(rows[i].net) \/ BlankCell(rows[i].addr)) =>
            /\ requests[i] = 0
            /\ (tool = "pool" /\ state[i] = "Done") => table[i] = <<Zero, Zero, Zero>>
            /\ (tool = "decimals" /\ phase # "start" /\ i < dpos) => dec[i] = 18

\* The network of row i is none of the names that have an endpoint, in any
\* letter case.
NoKnownEndpoint(i) == Lower(Strip(Str(rows[i].net))) \notin RpcNetworks

C9_HexDecode ==
    (tool = "decimals" /\ rpc.kind = "result" /\ rpc.value # <<>>) =>
        LET v == rpc.value
            digits == IF StartsWith(v, <<"0", "x">>) THEN SubSeq(v, 3, Len(v)) ELSE v
            wellFormed == /\ v # JsonNumber
                          /\ digits # <<>>
                          /\ \A k \in 1..Len(digits) : IsHexDigit(digits[k])
        IN  dec[rpc.row] = IF wellFormed THEN HexNumber(digits) ELSE 18

\* C10: a run ends with an error only when the input table cannot be
\* opened, and then no task has been scheduled.
C10_OnlyOpenFailureAborts ==
    (tool = "pool" /\ phase = "failed") =>
        /\ failure = "open"
        /\ \A i \in Rows : state[i] = "None"

\* C11: the lock is released on every way out of a row write: it is held
\* only while the collecting loop is inside a with block, and it is free after
\* a write that raised, so the next write is not blocked.
C11_LockReleased ==
    tool = "pool" =>
        /\ lock <=> coll.pc \in {"write", "release"}
        /\ coll.pc \in {"acquire", "raised", "idle"} => ~lock

\* An assignment has raised, the except branch is about to take the lock,
\* and the lock is free.
C11_Witness ==
    /\ tool = "pool"
    /\ coll.handler /\ coll.pc = "acquire"
    /\ ~lock

\* C12: no session is used by two tasks, and no request goes through the
\* session the constructor made: every request goes through a session that
\* create_session made for its task.
C12_SessionPerTask ==
    tool = "pool" =>
        /\ \A i, j \in DOMAIN used : i # j => used[i] # used[j]
        /\ \A i \in DOMAIN used : used[i] # SelfSession /\ used[i] \in 1..made
        /\ \A i \in Rows : requests[i] > 0 => i \in DOMAIN used

\* Two requests are in flight at once.
C12_Witness ==
    /\ tool = "pool"
    /\ \E i, j \in Rows :
          i # j /\ state[i] = "Fetching" /\ state[j] = "Fetching"

\* The strategies parse_html_data has called.
Ran == {pran[k] : k \in 1..Len(pran)}

\* The strategies are called in the order 1, 2, 3, 4.
InStrategyOrder ==
    /\ pran # <<>> => pran[1] = 1
    /\ \A k \in 1..(Len(pran) - 1) : pran[k] < pran[k + 1]

\* C14 as stated: the strategies are tried in the order 1, 2, 3, 4, and the
\* next one is tried whenever those tried so far have not populated all three
\* metrics; strategy 4 is run whenever a metric is unresolved after 1-3.
C14_NextStrategyWhenIncomplete ==
    tool = "parse" =>
        /\ InStrategyOrder
        /\ ppc = "done" =>
              LET s2 == Strategy2(pbody)
                  s3 == Strategy3(pbody, s2)
              IN  /\ Len(MarkerTexts(pbody)) # 3 => 2 \in Ran
                  /\ (2 \in Ran /\ \E f \in Fields : Falsy(s2[f])) => 3 \in Ran
                  /\ (2 \in Ran /\ \E f \in Fields : Falsy(s3[f])) => 4 \in Ran

\* C14 as amended: the strategies are tried in the order 1, 2, 3, 4; strategy
\* 2 is tried exactly when strategy 1 returned "0", "0", "0"; strategy 3 is
\* then tried exactly when strategy 2 left a metric unresolved; strategy 4 is
\* tried exactly when no metric is resolved after strategies 2 and 3; a metric
\* unresolved at the end is "0".
C14_StrategyOrder ==
    tool = "parse" =>
        /\ InStrategyOrder
        /\ ppc = "done" =>
              LET s1 == ExtractAllValuesByPattern(pbody)
                  s2 == Strategy2(pbody)
                  s3 == Strategy3(pbody, s2)
              IN  /\ 1 \in Ran
                  /\ 2 \in Ran <=> s1 = <<Zero, Zero, Zero>>
                  /\ 3 \in Ran <=> (2 \in Ran /\ \E f \in Fields : Falsy(s2[f]))
                  /\ 4 \in Ran <=> (2 \in Ran /\ \A f \in Fields : Falsy(s3[f]))
                  /\ \A f \in Fields : (2 \in Ran /\ Falsy(s3[f])) => pout[f] = Zero

\* parse_html_data has returned after strategies 2 and 3 resolved one metric
\* and left another unresolved: strategy 4 was not called.
C14_Witness ==
    /\ tool = "parse" /\ ppc = "done"
    /\ pran = <<1, 2, 3>>
    /\ \E f, g \in Fields : pout[f] # Zero /\ Falsy(pvals[g]) /\ pout[g] = Zero

\* The place of a task's state on its way from None to Done.
Rank(st) ==
    CASE st = "None" -> 0
      [] st = "Queued" -> 1
      [] st = "Fetching" -> 2
      [] st = "Extracting" -> 3
      [] st = "Pacing" -> 4
      [] st = "Returned" -> 5
      [] st = "Aggregating" -> 6
      [] st = "Done" -> 7

\* C15: in every step every task stays where it is or moves forward on the
\* way Queued, Fetching, Extracting, Aggregating, Done, and no task has more
\* than one request issued for it, whatever its request ended in.
C15_ForwardOnly ==
    [][tool = "pool" =>
          \A i \in Rows :
             /\ Rank(state'[i]) >= Rank(state[i])
             /\ requests'[i] <= 1]_vars

\* A finished run with a task whose only request failed and a task whose
\* only request was answered.
C15_Witness ==
    /\ tool = "pool" /\ phase = "done"
    /\ \E i, j \in Rows :
          /\ outcome[i].kind = "failure" /\ requests[i] = 1 /\ state[i] = "Done"
          /\ outcome[j].kind = "ok" /\ requests[j] = 1 /\ state[j] = "Done"

\* C16: a task's result is handed to the collecting loop only out of the
\* pacing delay: every step that makes a task Returned takes it from Pacing,
\* on the incomplete-row path and on the exception path too.
C16_PacedBeforeSubmit ==
    [][tool = "pool" =>
          \A i \in Rows :
             (state[i] # "Returned" /\ state'[i] = "Returned") =>
                 state[i] = "Pacing"]_vars

\* The tasks a worker has started and not yet returned.
InFlight == {i \in Rows : state[i] \in {"Fetching", "Extracting", "Pacing"}}

\* C17: at most max_workers tasks are in flight (Fetching, Extracting or in
\* the pacing delay), and each of them is run by exactly one worker.
C17_BoundedWorkers ==
    tool = "pool" =>
        /\ Cardinality(InFlight) <= MaxWorkers
        /\ \A i \in InFlight : Cardinality({w \in Workers : worker[w] = i}) = 1
        /\ \A w \in Workers : worker[w] # 0 => worker[w] \in InFlight

\* Every worker runs a task and a task waits in the queue.
C17_Witness ==
    /\ tool = "pool"
    /\ Cardinality(InFlight) = MaxWorkers
    /\ \E i \in Rows : state[i] = "Queued"

\* C18: a metric that a strategy has resolved to a non-empty value is
\* returned as that strategy resolved it: the three texts strategy 1 captured,
\* the values strategy 2 found, the values strategy 3 found for the metrics
\* strategy 2 left unresolved; strategy 4 is run only when no metric is
\* resolved, and a metric unresolved at the end is "0" on its own.
C18_ResolvedValueKept ==
    (tool = "parse" /\ ppc = "done") =>
        LET matches == MarkerTexts(pbody)
            s2 == Strategy2(pbody)
            s3 == Strategy3(pbody, s2)
        IN  /\ Len(matches) = 3 =>
                  \A f \in Fields :
                     Strip(matches[f]) # <<>> => pout[f] = Strip(matches[f])
            /\ 2 \in Ran =>
                  \A f \in Fields :
                     /\ ~Falsy(s2[f]) => pout[f] = s2[f]
                     /\ ~Falsy(s3[f]) => pout[f] = s3[f]
                     /\ Falsy(s3[f]) => pout[f] = Zero
            /\ 4 \in Ran => \A f \in Fields : Falsy(s3[f])

\* C19: the table is saved only when every submitted task is Done with its
\* row written, and a run whose tasks were submitted does not end before the
\* save step.
C19_SaveAfterAllDone ==
    tool = "pool" =>
        /\ (phase \in {"saving", "saved_result", "done"} \/ failure = "save") =>
              \A i \in Rows : state[i] = "Done" /\ fieldWrites[i] = 3
        /\ (phase = "failed" /\ \A i \in Rows : state[i] # "None") =>
              failure = "save"

\* C20: once the tasks are submitted, every change of the table is made by
\* the collecting loop in its write step with the lock held, no step of a
\* worker changes the table, and the loop never finds the lock taken.
C20_SingleWriter ==
    [][(tool = "pool" /\ phase # "loaded") =>
          /\ table' # table =>
                /\ lock /\ lock'
                /\ coll.pc = "write"
                /\ \A i \in Rows : state'[i] = state[i]
          /\ coll.pc' = "acquire" => ~lock']_vars

\* The collecting loop holds the lock, has written one field of a row, and a
\* worker is waiting for the answer to its request.
C20_Witness ==
    /\ tool = "pool"
    /\ lock /\ coll.pc = "write" /\ coll.field = 2
    /\ \E i \in Rows : state[i] = "Fetching"

\* C21: for the same input table and the same outcome of every request,
\* the single-thread run and the concurrent run send requests for the same
\* rows, neither for a row whose network or address is missing, and end
\* with the same table.
C21_SingleThreadEquivalent ==
    (tool = "pool" /\ phase = "done" /\ sphase = "done") =>
        /\ \A i \in Rows : (srequests[i] > 0) <=> (requests[i] > 0)
        /\ \A i \in Rows :
              (BlankCell(rows[i].net) \/ BlankCell(rows[i].addr)) =>
                  srequests[i] = 0 /\ requests[i] = 0
        /\ stable = table

====
